---- MODULE Spec2Model ----
(***************************************************************************)
(* A model of the 2048 game of src/a3.py: the Model class (grid, score,    *)
(* undo credits, undo history) and the Game controller that drives it      *)
(* from key presses, buttons, menu actions and delayed callbacks.          *)
(*                                                                         *)
(* Python lists are compared by value everywhere the program compares or   *)
(* restores them.  The helpers of a3_support return fresh lists, so no     *)
(* list stored in the history is ever the list add_tile writes to; the     *)
(* model therefore keeps values, not references.                           *)
(*                                                                         *)
(* Seven specifications share the variables:                                *)
(*   Spec      calls of the Model's methods in any order,                  *)
(*   UndoSpec  long runs of attempt_move and use_undo on one Model,        *)
(*   GameSpec  the controller's key, button and callback handlers,         *)
(*   FileSpec  moves, callbacks and undos with save_game and load_game,    *)
(*   MoveSpec  the four move methods applied to grids drawn from a set,    *)
(*   TileSpec  key presses and their new_tile callbacks, which view.after  *)
(*             runs once each,                                             *)
(*   ResetSpec moves and undos with the two ways of starting a new game.   *)
(***************************************************************************)
EXTENDS Integers, Sequences, FiniteSets

VARIABLES
    tiles_matrix,    \* Model.tiles_matrix: sequence of rows of cells
    score,           \* Model._score
    undos,           \* Model._undos
    previous_info,   \* Model._previous_info: sequence of <<tiles, score>>
    pre,             \* the Model's fields when the last call began
    op,              \* the method or handler that ran last
    arg,             \* its argument (a move key), or NoArg
    ret,             \* its return value, or NoRet
    gridFull,        \* add_tile has been called on a grid with no empty cell
    pending,         \* number of scheduled new_tile callbacks (view.after)
    dialog,          \* the message box shown last, or NoDialog
    file,            \* the text of the save file, one character per element
    opened,          \* the text load_game read last
    track,           \* progress of "committed move, add_tile, use_undo"
    steps,           \* number of calls made so far
    draws            \* number of add_tile calls made so far

vars == <<tiles_matrix, score, undos, previous_info, pre, op, arg, ret,
          gridFull, pending, dialog, file, opened, track, steps, draws>>

----------------------------------------------------------------------------
(* Bounds of the model.                                                    *)

\* Grid dimensions.  The game plays on 4 x 4; the reachable states of the
\* state machines are explored on a smaller grid.
NUM_ROWS == 2
NUM_COLS == 2

\* generate_tile picks among the first SpawnCells empty cells, in row-major
\* order (the game picks among all of them).
SpawnCells == 1

\* Spec: number of calls explored from a freshly constructed Model.
MaxSteps == 4

\* UndoSpec: number of calls explored; add_tile is called only among the
\* first MaxDraws of them.
MaxUndoSteps == 8
MaxDraws == 1

\* GameSpec: number of events handled, and the number of new_tile callbacks
\* that may be scheduled at once.
MaxEvents == 6
MaxPending == 2

\* FileSpec: number of events handled.
MaxFileEvents == 4

\* MoveSpec: width of the two-row grids the move methods are applied to.
MoveCols == 4

\* TileSpec: number of events handled, the callbacks of the key presses
\* included.
MaxTileEvents == 5

\* ResetSpec: number of calls explored.
MaxResetSteps == 4

----------------------------------------------------------------------------
(* Values of the program.                                                  *)

None == 0            \* an empty cell

UP == "w"
LEFT == "a"
DOWN == "s"
RIGHT == "d"

valid_move == <<UP, LEFT, DOWN, RIGHT>>

INITIAL_UNDOS == 3

NoArg == "-"
NoDialog == "-"

\* Return values: Python True, False, and None (a method that returns nothing).
True == "True"
False == "False"
NoRet == "None"

Range(s) == {s[i] : i \in 1..Len(s)}

----------------------------------------------------------------------------
(* a3_support: grid helpers.                                               *)

\* The rows reversed left to right.
reverse(tiles) ==
    [i \in 1..Len(tiles) |->
        [j \in 1..Len(tiles[i]) |-> tiles[i][Len(tiles[i]) + 1 - j]]]

\* Rows and columns swapped.
transpose(tiles) ==
    IF Len(tiles) = 0 THEN <<>>
    ELSE [j \in 1..Len(tiles[1]) |-> [i \in 1..Len(tiles) |-> tiles[i][j]]]

NotNone(x) == x # None

\* One row: the non-empty cells in order, padded on the right.
stack_row(row) ==
    LET kept == SelectSeq(row, NotNone)
    IN  [j \in 1..Len(row) |-> IF j <= Len(kept) THEN kept[j] ELSE None]

stack_left(tiles) == [i \in 1..Len(tiles) |-> stack_row(tiles[i])]

\* One left-to-right pass over a row from cell j on: an equal adjacent pair
\* doubles the left cell, clears the right one and scores the doubled value.
RECURSIVE combine_row(_, _, _)
combine_row(row, j, acc) ==
    IF j >= Len(row) THEN [row |-> row, score_added |-> acc]
    ELSE IF row[j] # None /\ row[j] = row[j + 1]
         THEN combine_row([row EXCEPT ![j] = 2 * row[j], ![j + 1] = None],
                          j + 1, acc + 2 * row[j])
         ELSE combine_row(row, j + 1, acc)

RECURSIVE SumTo(_, _)
SumTo(f, n) == IF n = 0 THEN 0 ELSE f[n] + SumTo(f, n - 1)

combine_left(tiles) ==
    LET rows == [i \in 1..Len(tiles) |-> combine_row(tiles[i], 1, 0)]
    IN  [tiles |-> [i \in 1..Len(tiles) |-> rows[i].row],
         score_added |-> SumTo([i \in 1..Len(tiles) |-> rows[i].score_added],
                               Len(tiles))]

\* The empty positions of a grid.
EmptyPositions(tiles) ==
    IF Len(tiles) = 0 THEN {}
    ELSE {p \in (1..Len(tiles)) \X (1..Len(tiles[1])) :
             tiles[p[1]][p[2]] = None}

\* The empty positions generate_tile chooses from.
SpawnPositions(tiles) ==
    LET Rank(p) == (p[1] - 1) * Len(tiles[1]) + p[2]
        Before(p) == {q \in EmptyPositions(tiles) : Rank(q) < Rank(p)}
    IN  {p \in EmptyPositions(tiles) : Cardinality(Before(p)) < SpawnCells}

\* The (position, value) pairs generate_tile may return.
generate_tile(tiles) == SpawnPositions(tiles) \X {2, 4}

----------------------------------------------------------------------------
(* class Model.  A model state is a record m with the four fields.         *)

Self == [tiles_matrix |-> tiles_matrix, score |-> score, undos |-> undos,
         previous_info |-> previous_info]

EmptyGrid == [i \in 1..NUM_ROWS |-> [j \in 1..NUM_COLS |-> None]]

\* add_tile that writes the tile's column where its value belongs.
add_tile_writesColumn(m, tile, value) ==
    [m EXCEPT !.tiles_matrix[tile[1]][tile[2]] = tile[2]]

\* add_tile with the tile generate_tile returned.
add_tile(m, tile, value) ==
    [m EXCEPT !.tiles_matrix[tile[1]][tile[2]] = value]

\* move_left that scores one of the two tiles of each merge.
move_left_scoresOneTile(m) ==
    LET t1 == stack_left(m.tiles_matrix)
        c  == combine_left(t1)
        t3 == stack_left(c.tiles)
    IN  [m EXCEPT !.tiles_matrix = t3, !.score = @ + c.score_added \div 2]

\* move_left with a second combine pass, so that merged tiles merge again.
move_left_cascade(m) ==
    LET t1 == stack_left(m.tiles_matrix)
        c  == combine_left(t1)
        t3 == stack_left(c.tiles)
        c2 == combine_left(t3)
        t5 == stack_left(c2.tiles)
    IN  [m EXCEPT !.tiles_matrix = t5,
                  !.score = @ + c.score_added + c2.score_added]

move_left(m) ==
    LET t1 == stack_left(m.tiles_matrix)
        c  == combine_left(t1)
        t3 == stack_left(c.tiles)
    IN  [m EXCEPT !.tiles_matrix = t3, !.score = @ + c.score_added]

\* move_right that merges as move_left does and then slides to the right.
move_right_mergesFromLeft(m) ==
    LET m2 == move_left(m)
    IN  [m2 EXCEPT !.tiles_matrix = reverse(stack_left(reverse(@)))]

move_right(m) ==
    LET m1 == [m EXCEPT !.tiles_matrix = reverse(@)]
        m2 == move_left(m1)
    IN  [m2 EXCEPT !.tiles_matrix = reverse(@)]

move_up(m) ==
    LET m1 == [m EXCEPT !.tiles_matrix = transpose(@)]
        m2 == move_left(m1)
    IN  [m2 EXCEPT !.tiles_matrix = transpose(@)]

move_down(m) ==
    LET m1 == [m EXCEPT !.tiles_matrix = transpose(@)]
        m2 == move_right(m1)
    IN  [m2 EXCEPT !.tiles_matrix = transpose(@)]

move_detected(m, move) ==
    IF move = UP THEN move_up(m)
    ELSE IF move = LEFT THEN move_left(m)
    ELSE IF move = DOWN THEN move_down(m)
    ELSE IF move = RIGHT THEN move_right(m)
    ELSE m

\* move_check that leaves the probed move on the grid.
move_check_leavesMove(m, move) ==
    IF Len(m.previous_info) > 0
    THEN LET last_step == <<m.tiles_matrix, m.score>>
             moved == move_detected(m, move)
         IN  IF moved.tiles_matrix # last_step[1]
             THEN [m |-> [moved EXCEPT !.score = last_step[2]], ret |-> True]
             ELSE [m |-> moved, ret |-> False]
    ELSE [m |-> m, ret |-> NoRet]

\* move_check that puts the grid back after a probe but not the score.
move_check_keepScore(m, move) ==
    IF Len(m.previous_info) > 0
    THEN LET last_step == <<m.tiles_matrix, m.score>>
             moved == move_detected(m, move)
         IN  IF moved.tiles_matrix # last_step[1]
             THEN [m |-> [moved EXCEPT !.tiles_matrix = last_step[1]],
                   ret |-> True]
             ELSE [m |-> moved, ret |-> False]
    ELSE [m |-> m, ret |-> NoRet]

\* move_check: the model state it leaves and the value it returns.  With an
\* empty history the method falls off its end and returns None.
move_check(m, move) ==
    IF Len(m.previous_info) > 0
    THEN LET last_step == <<m.tiles_matrix, m.score>>
             moved == move_detected(m, move)
         IN  IF moved.tiles_matrix # last_step[1]
             THEN [m |-> [moved EXCEPT !.tiles_matrix = last_step[1],
                                       !.score = last_step[2]],
                   ret |-> True]
             ELSE [m |-> moved, ret |-> False]
    ELSE [m |-> m, ret |-> NoRet]

\* attempt_move that forgets the trimmed entry when the move is rejected.
attempt_move_noReinsert(m, move) ==
    LET trim == Len(m.previous_info) > m.undos
        popped == IF trim THEN Tail(m.previous_info) ELSE m.previous_info
        m1 == [m EXCEPT !.previous_info =
                            Append(popped, <<m.tiles_matrix, m.score>>)]
        check == move_check(m1, move)
    IN  IF check.ret = True
        THEN [m |-> move_detected(check.m, move), ret |-> True]
        ELSE LET hist == check.m.previous_info
             IN  [m |-> [check.m EXCEPT !.previous_info =
                                            SubSeq(hist, 1, Len(hist) - 1)],
                  ret |-> False]

\* attempt_move that never trims the history.
attempt_move_noTrim(m, move) ==
    LET m1 == [m EXCEPT !.previous_info =
                            Append(@, <<m.tiles_matrix, m.score>>)]
        check == move_check(m1, move)
    IN  IF check.ret = True
        THEN [m |-> move_detected(check.m, move), ret |-> True]
        ELSE LET hist == check.m.previous_info
             IN  [m |-> [check.m EXCEPT !.previous_info =
                                            SubSeq(hist, 1, Len(hist) - 1)],
                  ret |-> False]

attempt_move(m, move) ==
    LET trim == Len(m.previous_info) > m.undos
        removed_info == IF trim THEN <<m.previous_info[1]>> ELSE <<>>
        popped == IF trim THEN Tail(m.previous_info) ELSE m.previous_info
        m1 == [m EXCEPT !.previous_info =
                            Append(popped, <<m.tiles_matrix, m.score>>)]
        check == move_check(m1, move)
    IN  IF check.ret = True
        THEN [m |-> move_detected(check.m, move), ret |-> True]
        ELSE LET hist == check.m.previous_info
                 back == IF removed_info # <<>> THEN removed_info \o hist
                         ELSE hist
             IN  [m |-> [check.m EXCEPT !.previous_info =
                                            SubSeq(back, 1, Len(back) - 1)],
                  ret |-> False]

\* has_won that accepts any tile of 2048 or more.
has_won_orAbove(m) ==
    \E i \in 1..Len(m.tiles_matrix) :
        \E j \in 1..Len(m.tiles_matrix[i]) : m.tiles_matrix[i][j] >= 2048

has_won(m) ==
    \E i \in 1..Len(m.tiles_matrix) : 2048 \in Range(m.tiles_matrix[i])

\* The four probes of one list comprehension, run one after the other.
RECURSIVE probe_all(_, _, _)
probe_all(m, k, found) ==
    IF k > Len(valid_move) THEN [m |-> m, any |-> found]
    ELSE LET c == move_check(m, valid_move[k])
         IN  probe_all(c.m, k + 1, found \/ c.ret = True)

\* has_lost from row i of the list the loop iterates over.
RECURSIVE has_lost_from(_, _, _)
has_lost_from(m, rows, i) ==
    IF i > Len(rows) THEN [m |-> m, ret |-> True]
    ELSE IF None \in Range(rows[i]) THEN [m |-> m, ret |-> False]
    ELSE LET p == probe_all(m, 1, FALSE)
         IN  IF p.any THEN [m |-> p.m, ret |-> False]
             ELSE has_lost_from(p.m, rows, i + 1)

has_lost(m) == has_lost_from(m, m.tiles_matrix, 1)

\* use_undo that reads the last entry without popping it.
use_undo_keepEntry(m) ==
    IF m.undos > 0 /\ Len(m.previous_info) > 0
    THEN LET a == m.previous_info[Len(m.previous_info)]
         IN  [m EXCEPT !.undos = @ - 1,
                       !.tiles_matrix = a[1],
                       !.score = a[2]]
    ELSE m

\* use_undo that does not look at the remaining credits.
use_undo_noCreditCheck(m) ==
    IF Len(m.previous_info) > 0
    THEN LET a == m.previous_info[Len(m.previous_info)]
         IN  [m EXCEPT !.undos = @ - 1,
                       !.previous_info = SubSeq(@, 1, Len(@) - 1),
                       !.tiles_matrix = a[1],
                       !.score = a[2]]
    ELSE m

use_undo(m) ==
    IF m.undos > 0 /\ Len(m.previous_info) > 0
    THEN LET a == m.previous_info[Len(m.previous_info)]
         IN  [m EXCEPT !.undos = @ - 1,
                       !.previous_info = SubSeq(@, 1, Len(@) - 1),
                       !.tiles_matrix = a[1],
                       !.score = a[2]]
    ELSE m

\* loading that leaves the history as it was.
loading_keepsHistory(m, tiles, sc, un, prev) ==
    [tiles_matrix |-> tiles, score |-> sc, undos |-> un,
     previous_info |-> m.previous_info]

loading(m, tiles, sc, un, prev) ==
    [tiles_matrix |-> tiles, score |-> sc, undos |-> un,
     previous_info |-> prev]

\* new_game that also gives the undo credits back.
new_game_resetUndos(m, c1, c2) ==
    LET blank == [m EXCEPT !.tiles_matrix = EmptyGrid,
                           !.undos = INITIAL_UNDOS]
        one == add_tile(blank, c1[1], c1[2])
    IN  add_tile(one, c2[1], c2[2])

\* new_game with the tiles its two add_tile calls drew.
new_game(m, c1, c2) ==
    LET blank == [m EXCEPT !.tiles_matrix = EmptyGrid]
        one == add_tile(blank, c1[1], c1[2])
    IN  add_tile(one, c2[1], c2[2])

\* The pairs of tiles generate_tile can return to the two calls of new_game.
NewGameTiles ==
    UNION {{<<c1, c2>> :
               c2 \in generate_tile(
                         add_tile([tiles_matrix |-> EmptyGrid],
                                  c1[1], c1[2]).tiles_matrix)} :
           c1 \in generate_tile(EmptyGrid)}

\* Model(): new_game, then the remaining fields.
Model_init(c1, c2) ==
    LET m == new_game([tiles_matrix |-> <<>>, score |-> 0, undos |-> 0,
                       previous_info |-> <<>>], c1, c2)
    IN  [m EXCEPT !.score = 0, !.undos = INITIAL_UNDOS,
                  !.previous_info = <<>>]

----------------------------------------------------------------------------
(* State shared by the specifications.                                     *)

Apply(m) ==
    /\ tiles_matrix' = m.tiles_matrix
    /\ score' = m.score
    /\ undos' = m.undos
    /\ previous_info' = m.previous_info

\* The Model's fields hold the state m.
Holds(m) ==
    /\ tiles_matrix = m.tiles_matrix
    /\ score = m.score
    /\ undos = m.undos
    /\ previous_info = m.previous_info

NoTrack == [phase |-> "none", snap |-> <<>>]

\* Follows the calls "attempt_move returning True, then add_tile (optional),
\* then use_undo", remembering the grid and score the move started from.
\* A state that save_game wrote is remembered until load_game reads it.
\* A Model constructed by Game.start_new_game is "new" until a move is
\* committed on it, and a tile is "stale" when add_tile places it on a grid
\* that the use_undo call just before it restored.
Tracked(name, r) ==
    IF track.phase = "saved" THEN track
    ELSE IF name = "attempt_move" /\ r = True
    THEN [phase |-> "moved", snap |-> <<tiles_matrix, score>>]
    ELSE IF name = "Model"
    THEN [phase |-> "new", snap |-> <<>>]
    ELSE IF track.phase = "new"
    THEN track
    ELSE IF name = "add_tile" /\ track.phase = "moved"
    THEN [track EXCEPT !.phase = "tiled"]
    ELSE IF name = "add_tile" /\ track.phase = "undone" /\ Self # pre
                             /\ generate_tile(tiles_matrix) # {}
    THEN [track EXCEPT !.phase = "stale"]
    ELSE IF name = "use_undo" /\ track.phase \in {"moved", "tiled"}
    THEN [track EXCEPT !.phase = "undone"]
    ELSE NoTrack

Called(name, a, r) ==
    /\ pre' = Self
    /\ op' = name
    /\ arg' = a
    /\ ret' = r
    /\ track' = Tracked(name, r)
    /\ steps' = steps + 1

Init ==
    /\ \E cc \in NewGameTiles : Holds(Model_init(cc[1], cc[2]))
    /\ pre = Self
    /\ op = "Model"
    /\ arg = NoArg
    /\ ret = NoRet
    /\ gridFull = FALSE
    /\ pending = 0
    /\ dialog = NoDialog
    /\ file = <<>>
    /\ opened = <<>>
    /\ track = NoTrack
    /\ steps = 0
    /\ draws = 0

\* One call of each method of the Model.
CallAttemptMove ==
    /\ \E move \in Range(valid_move) :
          LET r == attempt_move(Self, move)
          IN  Apply(r.m) /\ Called("attempt_move", move, r.ret)
    /\ UNCHANGED <<gridFull, pending, dialog, file, opened, draws>>

\* add_tile: generate_tile has nothing to choose from on a full grid.
CallAddTile ==
    /\ IF generate_tile(tiles_matrix) = {}
       THEN /\ gridFull' = TRUE
            /\ UNCHANGED <<tiles_matrix, score, undos, previous_info>>
       ELSE /\ \E c \in generate_tile(tiles_matrix) :
                  Apply(add_tile(Self, c[1], c[2]))
            /\ UNCHANGED gridFull
    /\ Called("add_tile", NoArg, NoRet)
    /\ draws' = draws + 1
    /\ UNCHANGED <<pending, dialog, file, opened>>

CallUseUndo ==
    /\ Apply(use_undo(Self))
    /\ Called("use_undo", NoArg, NoRet)
    /\ UNCHANGED <<gridFull, pending, dialog, file, opened, draws>>

CallNewGame ==
    /\ \E cc \in NewGameTiles : Apply(new_game(Self, cc[1], cc[2]))
    /\ Called("new_game", NoArg, NoRet)
    /\ UNCHANGED <<gridFull, pending, dialog, file, opened, draws>>

CallHasLost ==
    /\ LET r == has_lost(Self)
       IN  Apply(r.m) /\ Called("has_lost", NoArg, r.ret)
    /\ UNCHANGED <<gridFull, pending, dialog, file, opened, draws>>

CallMoveCheck ==
    /\ \E move \in Range(valid_move) :
          LET r == move_check(Self, move)
          IN  Apply(r.m) /\ Called("move_check", move, r.ret)
    /\ UNCHANGED <<gridFull, pending, dialog, file, opened, draws>>

----------------------------------------------------------------------------
(* Spec: the methods of one Model, called in any order.                    *)

AttemptMove == steps < MaxSteps /\ CallAttemptMove
AddTile == steps < MaxSteps /\ CallAddTile
UseUndo == steps < MaxSteps /\ CallUseUndo
NewGame == steps < MaxSteps /\ CallNewGame
HasLost == steps < MaxSteps /\ CallHasLost
MoveCheck == steps < MaxSteps /\ CallMoveCheck

Next ==
    \/ AttemptMove
    \/ AddTile
    \/ UseUndo
    \/ NewGame
    \/ HasLost
    \/ MoveCheck

Spec == Init /\ [][Next]_vars

----------------------------------------------------------------------------
(* UndoSpec: long runs of moves and undos on one Model, so that the undo   *)
(* credits run out and the history is trimmed; add_tile comes early.       *)

UndoAttemptMove == steps < MaxUndoSteps /\ CallAttemptMove
UndoUseUndo == steps < MaxUndoSteps /\ CallUseUndo
UndoAddTile == steps < MaxDraws /\ CallAddTile

UndoNext ==
    \/ UndoAttemptMove
    \/ UndoUseUndo
    \/ UndoAddTile

UndoSpec == Init /\ [][UndoNext]_vars

----------------------------------------------------------------------------
(* GameSpec: the controller.  Each event handler runs to completion; the   *)
(* new_tile callbacks scheduled with view.after run later, one at a time,  *)
(* in between other events.                                                *)

\* The handler name ran; it called the Model method called.
Handled(name, called, a, r) ==
    /\ pre' = Self
    /\ op' = name
    /\ arg' = a
    /\ ret' = r
    /\ track' = Tracked(called, r)
    /\ steps' = steps + 1

\* Game.attempt_move that schedules new_tile after a winning move too.
GameAttemptMove_schedulesOnWin ==
    /\ steps < MaxEvents
    /\ pending < MaxPending
    /\ \E move \in Range(valid_move) :
          LET r == attempt_move(Self, move)
          IN  /\ Apply(r.m)
              /\ Handled("Game.attempt_move", "attempt_move", move, r.ret)
              /\ IF r.ret = True
                 THEN /\ pending' = pending + 1
                      /\ dialog' = IF has_won(r.m) THEN "Congratulations!"
                                   ELSE dialog
                 ELSE UNCHANGED <<pending, dialog>>
    /\ UNCHANGED <<gridFull, file, opened, draws>>

\* Game.attempt_move, bound to the four keys.
GameAttemptMove ==
    /\ steps < MaxEvents
    /\ pending < MaxPending
    /\ \E move \in Range(valid_move) :
          LET r == attempt_move(Self, move)
          IN  /\ Apply(r.m)
              /\ Handled("Game.attempt_move", "attempt_move", move, r.ret)
              /\ IF r.ret = True
                 THEN IF has_won(r.m)
                      THEN dialog' = "Congratulations!" /\ UNCHANGED pending
                      ELSE pending' = pending + 1 /\ UNCHANGED dialog
                 ELSE UNCHANGED <<pending, dialog>>
    /\ UNCHANGED <<gridFull, file, opened, draws>>

\* Game.new_tile, a scheduled callback.  On a full grid generate_tile has
\* nothing to choose from and the callback ends there.
NewTileCallback ==
    /\ pending > 0
    /\ pending' = pending - 1
    /\ IF generate_tile(tiles_matrix) = {}
       THEN /\ gridFull' = TRUE
            /\ Handled("Game.new_tile", "add_tile", NoArg, NoRet)
            /\ UNCHANGED <<tiles_matrix, score, undos, previous_info, dialog>>
       ELSE /\ \E c \in generate_tile(tiles_matrix) :
                  LET r == has_lost(add_tile(Self, c[1], c[2]))
                  IN  /\ Apply(r.m)
                      /\ Handled("Game.new_tile", "add_tile", NoArg, r.ret)
                      /\ dialog' = IF r.ret = True THEN "Oops!" ELSE dialog
            /\ UNCHANGED gridFull
    /\ draws' = draws + 1
    /\ UNCHANGED <<file, opened>>

GameNewTile == steps < MaxEvents /\ NewTileCallback

\* Game.undo_previous_move, the Undo Move button.
GameUndoPreviousMove ==
    /\ steps < MaxEvents
    /\ Apply(use_undo(Self))
    /\ Handled("Game.undo_previous_move", "use_undo", NoArg, NoRet)
    /\ UNCHANGED <<gridFull, pending, dialog, file, opened, draws>>

\* Game.start_new_game that calls new_game on the Model it has.
GameStartNewGame_keepsModel ==
    /\ steps < MaxEvents
    /\ \E cc \in NewGameTiles : Apply(new_game(Self, cc[1], cc[2]))
    /\ Handled("Game.start_new_game", "Model", NoArg, NoRet)
    /\ UNCHANGED <<gridFull, pending, dialog, file, opened, draws>>

\* Game.start_new_game, the New Game button and menu entry: a new Model.
GameStartNewGame ==
    /\ steps < MaxEvents
    /\ \E cc \in NewGameTiles : Apply(Model_init(cc[1], cc[2]))
    /\ Handled("Game.start_new_game", "Model", NoArg, NoRet)
    /\ UNCHANGED <<gridFull, pending, dialog, file, opened, draws>>

GameNext ==
    \/ GameAttemptMove
    \/ GameNewTile
    \/ GameUndoPreviousMove
    \/ GameStartNewGame

GameSpec == Init /\ [][GameNext]_vars

----------------------------------------------------------------------------
(* FileSpec: key presses, the new_tile callbacks and the Undo button,      *)
(* together with the File menu's Save game and Load game.                  *)

\* Python values: the type, and the int or the items.
PyNone == [type |-> "NoneType", val |-> 0, items |-> <<>>]
PyInt(n) == [type |-> "int", val |-> n, items |-> <<>>]
PyList(xs) == [type |-> "list", val |-> 0, items |-> xs]
PyTuple(xs) == [type |-> "tuple", val |-> 0, items |-> xs]

\* The Python values of a grid, of the history, and of the list save_game
\* builds from a model state.
PyGrid(tiles) ==
    PyList([i \in 1..Len(tiles) |->
               PyList([j \in 1..Len(tiles[i]) |->
                          IF tiles[i][j] = None THEN PyNone
                          ELSE PyInt(tiles[i][j])])])

PyHistory(prev) ==
    PyList([k \in 1..Len(prev) |->
               PyTuple(<<PyGrid(prev[k][1]), PyInt(prev[k][2])>>)])

Replicate(m) ==
    PyList(<<PyGrid(m.tiles_matrix), PyInt(m.score), PyInt(m.undos),
             PyHistory(m.previous_info)>>)

\* A Python value as this model holds it in the Model's fields.
RECURSIVE Value(_)
Value(v) ==
    IF v.type = "NoneType" THEN None
    ELSE IF v.type = "int" THEN v.val
    ELSE [k \in 1..Len(v.items) |-> Value(v.items[k])]

Digit == <<"0", "1", "2", "3", "4", "5", "6", "7", "8", "9">>

RECURSIVE Digits(_)
Digits(n) ==
    IF n < 10 THEN <<Digit[n + 1]>>
    ELSE Digits(n \div 10) \o <<Digit[(n % 10) + 1]>>

\* str(v), one character per element: None, decimal ints, [a, b] and (a, b),
\* a tuple of one item as (a,).
RECURSIVE str(_)
RECURSIVE Joined(_, _)
Joined(xs, k) ==
    IF k > Len(xs) THEN <<>>
    ELSE str(xs[k]) \o (IF k < Len(xs) THEN <<",", " ">> ELSE <<>>)
                    \o Joined(xs, k + 1)

str(v) ==
    IF v.type = "NoneType" THEN <<"N", "o", "n", "e">>
    ELSE IF v.type = "int" THEN Digits(v.val)
    ELSE IF v.type = "list" THEN <<"[">> \o Joined(v.items, 1) \o <<"]">>
    ELSE IF Len(v.items) = 1 THEN <<"(">> \o str(v.items[1]) \o <<",", ")">>
    ELSE <<"(">> \o Joined(v.items, 1) \o <<")">>

\* eval(text) for a text that is a Python literal made of None, ints, lists
\* and tuples.
RECURSIVE SkipSpaces(_, _)
SkipSpaces(text, i) ==
    IF i <= Len(text) /\ text[i] = " " THEN SkipSpaces(text, i + 1) ELSE i

RECURSIVE ParseInt(_, _, _)
ParseInt(text, i, acc) ==
    IF i <= Len(text) /\ text[i] \in Range(Digit)
    THEN LET d == CHOOSE n \in 0..9 : Digit[n + 1] = text[i]
         IN  ParseInt(text, i + 1, 10 * acc + d)
    ELSE [val |-> PyInt(acc), next |-> i]

RECURSIVE ParseValue(_, _)
RECURSIVE ParseItems(_, _, _, _, _)
ParseItems(text, i, close, acc, comma) ==
    LET j == SkipSpaces(text, i)
    IN  IF text[j] = close
        THEN [items |-> acc, comma |-> comma, next |-> j + 1]
        ELSE LET v == ParseValue(text, j)
                 k == SkipSpaces(text, v.next)
             IN  IF text[k] = ","
                 THEN ParseItems(text, k + 1, close, Append(acc, v.val), TRUE)
                 ELSE [items |-> Append(acc, v.val), comma |-> comma,
                       next |-> k + 1]

ParseValue(text, i) ==
    LET j == SkipSpaces(text, i)
    IN  IF text[j] = "["
        THEN LET r == ParseItems(text, j + 1, "]", <<>>, FALSE)
             IN  [val |-> PyList(r.items), next |-> r.next]
        ELSE IF text[j] = "("
        THEN LET r == ParseItems(text, j + 1, ")", <<>>, FALSE)
             IN  IF Len(r.items) = 1 /\ ~r.comma
                 THEN [val |-> r.items[1], next |-> r.next]
                 ELSE [val |-> PyTuple(r.items), next |-> r.next]
        ELSE IF text[j] = "N" THEN [val |-> PyNone, next |-> j + 4]
        ELSE ParseInt(text, j, 0)

eval(text) == ParseValue(text, 1).val

\* A state no game of this session was in, as a hand-edited save file
\* holds it: one move away from the 2048 tile.
EditedState ==
    [tiles_matrix |-> [EmptyGrid EXCEPT ![1][1] = 1024, ![1][2] = 1024],
     score |-> 9000, undos |-> 5, previous_info |-> <<>>]

\* The texts of the other files the player can select: a tuple of four
\* items, a list of three, and the edited save file.
OtherFiles ==
    {str(PyTuple(Replicate(EditedState).items)),
     str(PyList(SubSeq(Replicate(EditedState).items, 1, 3))),
     str(Replicate(EditedState))}

\* The handler name ran with the file dialog's answer a.
FileHandled(name, a, t) ==
    /\ pre' = Self
    /\ op' = name
    /\ arg' = a
    /\ ret' = NoRet
    /\ track' = t
    /\ steps' = steps + 1

\* save_game: the dialog is cancelled, or the four fields are written as
\* the str of one list.
GameSave ==
    /\ \E filepath \in {NoArg, "save"} :
          IF filepath = NoArg
          THEN /\ FileHandled("save_game", NoArg, track)
               /\ UNCHANGED file
          ELSE /\ file' = str(Replicate(Self))
               /\ FileHandled("save_game", filepath,
                              [phase |-> "saved",
                               snap |-> <<tiles_matrix, score, undos,
                                          previous_info>>])
    /\ UNCHANGED <<tiles_matrix, score, undos, previous_info, gridFull,
                   pending, dialog, opened, draws>>

\* load_game: the dialog is cancelled, or a file of another type is
\* reported, or the file is read and evaluated; a list of four elements is
\* installed, anything else reported.
GameLoad ==
    /\ \E extension \in {NoArg, "txt", "save"} :
          IF extension = NoArg
          THEN /\ FileHandled("load_game", NoArg, track)
               /\ UNCHANGED <<tiles_matrix, score, undos, previous_info,
                              dialog, opened>>
          ELSE IF extension # "save"
          THEN /\ dialog' = "Error"
               /\ FileHandled("load_game", extension, track)
               /\ UNCHANGED <<tiles_matrix, score, undos, previous_info,
                              opened>>
          ELSE \E text \in (IF file = <<>> THEN {} ELSE {file})
                               \cup OtherFiles :
                  LET replicate == eval(text)
                  IN  /\ opened' = text
                      /\ IF replicate.type = "list"
                            /\ Len(replicate.items) = 4
                         THEN /\ Apply(loading(Self,
                                               Value(replicate.items[1]),
                                               Value(replicate.items[2]),
                                               Value(replicate.items[3]),
                                               Value(replicate.items[4])))
                              /\ FileHandled(
                                    "load_game", extension,
                                    IF track.phase = "saved" /\ text = file
                                    THEN [track EXCEPT !.phase = "loaded"]
                                    ELSE NoTrack)
                              /\ UNCHANGED dialog
                         ELSE /\ dialog' = "Error"
                              /\ FileHandled("load_game", extension, track)
                              /\ UNCHANGED <<tiles_matrix, score, undos,
                                             previous_info>>
    /\ UNCHANGED <<gridFull, pending, file, draws>>

FileAttemptMove == steps < MaxFileEvents /\ GameAttemptMove
FileNewTile == steps < MaxFileEvents /\ GameNewTile
FileUndoPreviousMove == steps < MaxFileEvents /\ GameUndoPreviousMove
FileSave == steps < MaxFileEvents /\ GameSave
FileLoad == steps < MaxFileEvents /\ GameLoad

FileNext ==
    \/ FileAttemptMove
    \/ FileNewTile
    \/ FileUndoPreviousMove
    \/ FileSave
    \/ FileLoad

FileSpec == Init /\ [][FileNext]_vars

----------------------------------------------------------------------------
(* MoveSpec: one move method applied to a grid drawn from MoveGrids, and   *)
(* has_won applied to the grid before or after it.                         *)
(* The grids have two rows of MoveCols cells, or MoveCols rows of two.     *)

MoveCells == {None} \cup {2, 4}
MoveRowSet == [1..MoveCols -> MoveCells]
WideGrids == {<<r1, r2>> : r1 \in MoveRowSet, r2 \in MoveRowSet}
TallGrids == {transpose(g) : g \in WideGrids}

\* Grids of two rows of two cells with tiles around the winning tile.
BigCells == {None} \cup {1024, 2048, 4096}
BigGrids == {<<r1, r2>> : r1 \in [1..2 -> BigCells], r2 \in [1..2 -> BigCells]}

MoveGrids == WideGrids \cup TallGrids \cup BigGrids

MoveInit ==
    /\ tiles_matrix \in MoveGrids
    /\ score = 0
    /\ undos = INITIAL_UNDOS
    /\ previous_info = <<>>
    /\ pre = Self
    /\ op = "grid"
    /\ arg = NoArg
    /\ ret = NoRet
    /\ gridFull = FALSE
    /\ pending = 0
    /\ dialog = NoDialog
    /\ file = <<>>
    /\ opened = <<>>
    /\ track = NoTrack
    /\ steps = 0
    /\ draws = 0

Moved(name, m) ==
    /\ op = "grid"
    /\ Apply(m)
    /\ Called(name, NoArg, NoRet)
    /\ UNCHANGED <<gridFull, pending, dialog, file, opened, draws>>

MoveLeft == Moved("move_left", move_left(Self))
MoveRight == Moved("move_right", move_right(Self))
MoveUp == Moved("move_up", move_up(Self))
MoveDown == Moved("move_down", move_down(Self))

\* has_won called on the grid, or on the grid a move left.
MoveHasWon ==
    /\ op # "has_won"
    /\ Apply(Self)
    /\ Called("has_won", NoArg, IF has_won(Self) THEN True ELSE False)
    /\ UNCHANGED <<gridFull, pending, dialog, file, opened, draws>>

MoveNext ==
    \/ MoveLeft
    \/ MoveRight
    \/ MoveUp
    \/ MoveDown
    \/ MoveHasWon

MoveSpec == MoveInit /\ [][MoveNext]_vars

----------------------------------------------------------------------------
(* TileSpec: key presses and the new_tile callbacks they schedule, in a    *)
(* game just constructed or just loaded from the edited save file.  A key  *)
(* press is handled only while the bound leaves room for the callbacks     *)
(* scheduled so far and its own; view.after runs every scheduled callback. *)

TileInit ==
    /\ \/ /\ \E cc \in NewGameTiles : Holds(Model_init(cc[1], cc[2]))
          /\ op = "Model"
          /\ opened = <<>>
       \/ /\ Holds(EditedState)
          /\ op = "load_game"
          /\ opened = str(Replicate(EditedState))
    /\ pre = Self
    /\ arg = NoArg
    /\ ret = NoRet
    /\ gridFull = FALSE
    /\ pending = 0
    /\ dialog = NoDialog
    /\ file = <<>>
    /\ track = NoTrack
    /\ steps = 0
    /\ draws = 0

TileAttemptMove == steps + pending + 1 < MaxTileEvents /\ GameAttemptMove
TileNewTile == NewTileCallback

TileNext ==
    \/ TileAttemptMove
    \/ TileNewTile

\* Weak fairness of the callback, WF_vars(TileNewTile), written with the
\* callback's enabling condition, pending > 0, in the place of ENABLED.
TileFairness == []<>(pending = 0) \/ []<><<TileNewTile>>_vars

TileSpec == TileInit /\ [][TileNext]_vars /\ TileFairness

----------------------------------------------------------------------------
(* ResetSpec: moves and undos on the Game's Model, with Model.new_game     *)
(* called on it and with Game.start_new_game replacing it.                 *)

ResetAttemptMove == steps < MaxResetSteps /\ CallAttemptMove
ResetUseUndo == steps < MaxResetSteps /\ CallUseUndo
ResetNewGame == steps < MaxResetSteps /\ CallNewGame
ResetStartNewGame == steps < MaxResetSteps /\ GameStartNewGame

ResetNext ==
    \/ ResetAttemptMove
    \/ ResetUseUndo
    \/ ResetNewGame
    \/ ResetStartNewGame

ResetSpec == Init /\ [][ResetNext]_vars

----------------------------------------------------------------------------
(* Properties.                                                             *)

Cells(tiles) ==
    IF Len(tiles) = 0 THEN {}
    ELSE (1..Len(tiles)) \X (1..Len(tiles[1]))

NonEmpty(tiles) == {p \in Cells(tiles) : tiles[p[1]][p[2]] # None}

\* The move in direction move would change the grid of m.
WouldChange(m, move) ==
    move_detected(m, move).tiles_matrix # m.tiles_matrix

Rejected == op = "attempt_move" /\ ret = False
Committed == op = "attempt_move" /\ ret = True

\* C1: when attempt_move returns False, the grid, the score, the history
\* (same entries, same order, the entry trimmed during the attempt included)
\* and undosRemaining equal their values before the call.
C1_RejectedMoveChangesNothing == Rejected => Self = pre

\* A rejected attempt that trimmed the oldest entry before probing.
C1_Witness == Rejected /\ Len(pre.previous_info) > pre.undos

\* C2: attempt_move returns True exactly when the move changes the grid;
\* then the last history entry is the grid and score from before the move,
\* the grid is the moved grid, the score has grown by the move's score
\* delta once, and undosRemaining is unchanged.
C2_CommittedMove ==
    op = "attempt_move" =>
        LET moved == move_detected(pre, arg)
        IN  /\ ret \in {True, False}
            /\ ret = True <=> WouldChange(pre, arg)
            /\ ret = True =>
                  /\ Len(previous_info) > 0
                  /\ previous_info[Len(previous_info)]
                        = <<pre.tiles_matrix, pre.score>>
                  /\ tiles_matrix = moved.tiles_matrix
                  /\ score = moved.score
                  /\ undos = pre.undos

\* A committed move that merged tiles, so that the score grew.
C2_Witness == Committed /\ score > pre.score

\* The merge of a row given as its non-empty cells, left to right: the
\* leftmost equal neighbours become one doubled tile, which merges no more.
RECURSIVE MergedRow(_)
MergedRow(xs) ==
    IF Len(xs) < 2 THEN xs
    ELSE IF xs[1] = xs[2]
         THEN <<2 * xs[1]>> \o MergedRow(SubSeq(xs, 3, Len(xs)))
         ELSE <<xs[1]>> \o MergedRow(Tail(xs))

\* The sum of the doubled values of that merge.
RECURSIVE MergedScore(_)
MergedScore(xs) ==
    IF Len(xs) < 2 THEN 0
    ELSE IF xs[1] = xs[2]
         THEN 2 * xs[1] + MergedScore(SubSeq(xs, 3, Len(xs)))
         ELSE MergedScore(Tail(xs))

Tiles(row) == SelectSeq(row, NotNone)

Padded(xs, n) == [j \in 1..n |-> IF j <= Len(xs) THEN xs[j] ELSE None]

\* C3: move_left turns every row, independently, into its non-cascading
\* merge stacked to the left (tiles 2,2,2,2 become 4,4, never 8), and adds
\* to the score the sum of the doubled values over all rows.
C3_MoveLeftMergesOnce ==
    op = "move_left" =>
        /\ Len(tiles_matrix) = Len(pre.tiles_matrix)
        /\ \A i \in 1..Len(pre.tiles_matrix) :
              LET row == pre.tiles_matrix[i]
              IN  /\ tiles_matrix[i] = Padded(MergedRow(Tiles(row)), Len(row))
                  /\ Tiles(row) = <<2, 2, 2, 2>>
                        => Tiles(tiles_matrix[i]) = <<4, 4>>
        /\ score = pre.score
                    + SumTo([i \in 1..Len(pre.tiles_matrix) |->
                                MergedScore(Tiles(pre.tiles_matrix[i]))],
                            Len(pre.tiles_matrix))

\* The row 2,2,2,2 moved left, above a row that merges too.
C3_Witness ==
    /\ op = "move_left"
    /\ Tiles(pre.tiles_matrix[1]) = <<2, 2, 2, 2>>
    /\ Tiles(pre.tiles_matrix[2]) = <<4, 4>>
    /\ score = pre.score + 16

\* C4: with a credit left and a non-empty history, use_undo takes one
\* credit, removes the most recent entry only, and restores the grid and
\* score of that entry; so one use_undo after a committed move, with or
\* without an add_tile in between, restores the grid and score from just
\* before that move.
C4_UndoRestores ==
    /\ (op = "use_undo" /\ pre.undos > 0 /\ Len(pre.previous_info) > 0) =>
          LET n == Len(pre.previous_info)
          IN  /\ undos = pre.undos - 1
              /\ previous_info = SubSeq(pre.previous_info, 1, n - 1)
              /\ <<tiles_matrix, score>> = pre.previous_info[n]
    /\ (track.phase = "undone" /\ pre.undos > 0) =>
          <<tiles_matrix, score>> = track.snap

\* An undo of a committed, scoring move after a tile was added, with an
\* older entry left in the history.
C4_Witness ==
    /\ op = "use_undo"
    /\ track.phase = "undone"
    /\ pre.score > score
    /\ NonEmpty(pre.tiles_matrix) # NonEmpty(tiles_matrix)
    /\ pre.undos > 0

\* C5: use_undo with no credit left, or with an empty history, changes
\* nothing.
C5_UndoNoOp ==
    (op = "use_undo" /\ (pre.undos = 0 \/ Len(pre.previous_info) = 0))
        => Self = pre

\* use_undo called with no credit left while the history has entries.
C5_Witness ==
    op = "use_undo" /\ pre.undos = 0 /\ Len(pre.previous_info) > 0

\* C6: has_lost returns True exactly when the grid has no empty cell and no
\* move in any of the four directions would change it.
C6_HasLostIffStuck ==
    op = "has_lost" =>
        (ret = True <=>
            /\ NonEmpty(pre.tiles_matrix) = Cells(pre.tiles_matrix)
            /\ \A k \in 1..Len(valid_move) : ~WouldChange(pre, valid_move[k]))

\* C7: the history never holds more than undosRemaining + 1 snapshots.
C7_HistoryBound == Len(previous_info) <= undos + 1

\* A committed move that trimmed the oldest entry of a full history.
C7_Witness ==
    /\ Committed
    /\ Len(pre.previous_info) = pre.undos + 1
    /\ Len(previous_info) = undos + 1

C9_NewGameResets ==
    op = "new_game" =>
        /\ Cardinality(NonEmpty(tiles_matrix)) = 2
        /\ \A p \in NonEmpty(tiles_matrix) : tiles_matrix[p[1]][p[2]] \in {2, 4}
        /\ score = 0

\* C10: under every interleaving of the controller's events (key presses,
\* Undo, New Game, load, the scheduled new_tile callbacks), add_tile is
\* never called on a grid with no empty cell.
C10_GridFullUnreachable == gridFull = FALSE

\* 2, 4, 8, 16, ...
RECURSIVE IsPowerOfTwo(_)
IsPowerOfTwo(v) ==
    IF v < 2 THEN FALSE
    ELSE IF v = 2 THEN TRUE
    ELSE v % 2 = 0 /\ IsPowerOfTwo(v \div 2)

\* The grids of the history.
HistoryGrids == {previous_info[k][1] : k \in 1..Len(previous_info)}

\* C11: in every state reached from a fresh game through attempt_move,
\* add_tile, use_undo and new_game, every non-empty cell of the grid and of
\* every grid stored in the history holds a power of two that is at least 2.
C11_CellsArePowersOfTwo ==
    \A g \in {tiles_matrix} \cup HistoryGrids :
        \A p \in NonEmpty(g) : IsPowerOfTwo(g[p[1]][p[2]])

\* An undo that brought back a grid with a merged tile, next to a tile that
\* add_tile placed, with an older grid still in the history.
C11_Witness ==
    /\ op = "use_undo"
    /\ Self # pre
    /\ Len(previous_info) > 0
    /\ \E p \in NonEmpty(tiles_matrix) : tiles_matrix[p[1]][p[2]] >= 8
    /\ Cardinality(NonEmpty(tiles_matrix)) >= 2

\* C12: each time attempt_move commits a move, the history, after the
\* snapshot from before the move has been pushed, holds at most
\* undosRemaining snapshots.
C12_HistoryWithinCredits == Committed => Len(previous_info) <= undos

\* C13: when load_game evaluates the file to a value that is not a list of
\* four elements, the error dialog is shown and the grid, score,
\* undosRemaining and history stay as they were; when it is a list of four
\* elements, they become its four elements, and the text save_game writes
\* evaluates to the four fields it was written from, so that loading it
\* restores the state that was saved, field for field.
C13_LoadValidates ==
    /\ (op = "save_game" /\ arg = "save") =>
          /\ eval(file) = Replicate(Self)
          /\ Value(eval(file))
                = <<tiles_matrix, score, undos, previous_info>>
    /\ (op = "load_game" /\ arg = "save") =>
          LET replicate == eval(opened)
          IN  IF replicate.type = "list" /\ Len(replicate.items) = 4
              THEN /\ <<tiles_matrix, score, undos, previous_info>>
                         = Value(replicate)
                   /\ track.phase = "loaded" =>
                         <<tiles_matrix, score, undos, previous_info>>
                             = track.snap
              ELSE dialog = "Error" /\ Self = pre

\* A saved state with a merged tile, a score and a history entry, loaded
\* back after the game had moved on.
C13_Witness ==
    /\ op = "load_game"
    /\ track.phase = "loaded"
    /\ Self # pre
    /\ score > 0
    /\ Len(previous_info) > 0
    /\ previous_info # pre.previous_info

ReverseSeq(xs) == [k \in 1..Len(xs) |-> xs[Len(xs) + 1 - k]]

Column(tiles, j) == [i \in 1..Len(tiles) |-> tiles[i][j]]

\* A row or column after a move toward its first cell, and toward its last
\* cell: stacked toward that cell, merges taken from that cell on.
TowardFirst(line) == Padded(MergedRow(Tiles(line)), Len(line))
TowardLast(line) == ReverseSeq(TowardFirst(ReverseSeq(line)))

\* The score of the merges of the rows, and of the columns, of a grid,
\* taken from the first cell on or from the last cell on.
RowsScore(tiles, fromLast) ==
    SumTo([i \in 1..Len(tiles) |->
              MergedScore(Tiles(IF fromLast THEN ReverseSeq(tiles[i])
                                ELSE tiles[i]))],
          Len(tiles))

ColumnsScore(tiles, fromLast) == RowsScore(transpose(tiles), fromLast)

\* C14: the grid and score of move_right are those of reversing the rows,
\* moving left and reversing back; move_up is transpose, move left,
\* transpose; move_down is transpose, move right, transpose.  Each equals
\* stack-combine-stack run toward its own edge, merges taken first from
\* that edge: the row 2,2,2,_ moved right is _,_,2,4.
C14_MovesAreConjugates ==
    LET flipped == [pre EXCEPT !.tiles_matrix = reverse(@)]
        turned == [pre EXCEPT !.tiles_matrix = transpose(@)]
        rows == 1..Len(pre.tiles_matrix)
        cols == 1..Len(pre.tiles_matrix[1])
    IN  /\ op = "move_right" =>
              /\ tiles_matrix = reverse(move_left(flipped).tiles_matrix)
              /\ score = move_left(flipped).score
              /\ \A i \in rows :
                    tiles_matrix[i] = TowardLast(pre.tiles_matrix[i])
              /\ score = pre.score + RowsScore(pre.tiles_matrix, TRUE)
              /\ \A i \in rows :
                    pre.tiles_matrix[i] = <<2, 2, 2, None>>
                        => tiles_matrix[i] = <<None, None, 2, 4>>
        /\ op = "move_up" =>
              /\ tiles_matrix = transpose(move_left(turned).tiles_matrix)
              /\ score = move_left(turned).score
              /\ \A j \in cols :
                    Column(tiles_matrix, j)
                        = TowardFirst(Column(pre.tiles_matrix, j))
              /\ score = pre.score + ColumnsScore(pre.tiles_matrix, FALSE)
        /\ op = "move_down" =>
              /\ tiles_matrix = transpose(move_right(turned).tiles_matrix)
              /\ score = move_right(turned).score
              /\ \A j \in cols :
                    Column(tiles_matrix, j)
                        = TowardLast(Column(pre.tiles_matrix, j))
              /\ score = pre.score + ColumnsScore(pre.tiles_matrix, TRUE)

\* Three equal tiles moved right: the two nearest the right edge merge.
C14_Witness ==
    /\ op = "move_right"
    /\ Tiles(pre.tiles_matrix[1]) = <<2, 2, 2>>
    /\ pre.tiles_matrix[1][Len(pre.tiles_matrix[1])] = None
    /\ Tiles(tiles_matrix[1]) = <<2, 4>>
    /\ tiles_matrix[1][1] = None
    /\ score = pre.score + 4

\* C15: has_won returns True exactly when at least one cell of the grid
\* equals 2048, whatever the other cells hold; a grid with a tile above 2048
\* and no 2048 tile is not won.
C15_HasWonIff2048 ==
    op = "has_won" =>
        /\ ret = True <=>
              \E p \in Cells(tiles_matrix) : tiles_matrix[p[1]][p[2]] = 2048
        /\ ((\E p \in Cells(tiles_matrix) : tiles_matrix[p[1]][p[2]] > 2048)
            /\ (\A p \in Cells(tiles_matrix) : tiles_matrix[p[1]][p[2]] # 2048))
              => ret = False

\* has_won called after two 2048 tiles merged into 4096, next to a 1024.
C15_Witness ==
    /\ op = "has_won"
    /\ ret = False
    /\ \E p \in Cells(tiles_matrix) : tiles_matrix[p[1]][p[2]] = 4096
    /\ \E p \in Cells(tiles_matrix) : tiles_matrix[p[1]][p[2]] = 1024
    /\ \E p \in Cells(pre.tiles_matrix) : pre.tiles_matrix[p[1]][p[2]] = 4096
    /\ score = 4096

\* C16: move_check, and has_lost which calls it for the four directions,
\* change nothing: after either call the grid, the score, the history and
\* undosRemaining equal their values before the call, whether or not the
\* probed move would change the grid.
C16_ProbesChangeNothing == op \in {"move_check", "has_lost"} => Self = pre

\* has_lost on a full grid with a history entry: the four probes ran, and
\* one of them found a move that merges tiles.
C16_Witness ==
    /\ op = "has_lost"
    /\ ret = False
    /\ NonEmpty(pre.tiles_matrix) = Cells(pre.tiles_matrix)
    /\ Len(pre.previous_info) > 0
    /\ \E k \in 1..Len(valid_move) :
          move_detected(pre, valid_move[k]).score > pre.score

Full(tiles) == NonEmpty(tiles) = Cells(tiles)

C19_TileJoinsItsMove ==
    /\ track.phase # "stale"
    /\ track.phase = "new" => Cardinality(NonEmpty(tiles_matrix)) = 2

\* The sum of the tile values of a grid.
Total(tiles) ==
    SumTo([i \in 1..Len(tiles) |-> SumTo(tiles[i], Len(tiles[i]))],
          Len(tiles))

\* The number of merges of a row given as its non-empty cells.
RECURSIVE MergeCount(_)
MergeCount(xs) ==
    IF Len(xs) < 2 THEN 0
    ELSE IF xs[1] = xs[2] THEN 1 + MergeCount(SubSeq(xs, 3, Len(xs)))
    ELSE MergeCount(Tail(xs))

\* C20: a move in any direction preserves the sum of the tile values and
\* never increases the number of non-empty cells; that number drops by
\* exactly the number of merges, and the score grows by exactly the sum of
\* the values of the tiles the merges created.
C20_MovePreservesTotal ==
    op \in {"move_left", "move_right", "move_up", "move_down"} =>
        LET lines == IF op \in {"move_left", "move_right"}
                     THEN pre.tiles_matrix
                     ELSE transpose(pre.tiles_matrix)
            fromLast == op \in {"move_right", "move_down"}
            Toward(line) == Tiles(IF fromLast THEN ReverseSeq(line) ELSE line)
            merges == SumTo([i \in 1..Len(lines) |->
                                MergeCount(Toward(lines[i]))], Len(lines))
            created == SumTo([i \in 1..Len(lines) |->
                                 MergedScore(Toward(lines[i]))], Len(lines))
            before == Cardinality(NonEmpty(pre.tiles_matrix))
            after == Cardinality(NonEmpty(tiles_matrix))
        IN  /\ Total(tiles_matrix) = Total(pre.tiles_matrix)
            /\ after <= before
            /\ after = before - merges
            /\ score = pre.score + created

\* A move up that merged two pairs of different values.
C20_Witness ==
    /\ op = "move_up"
    /\ Cardinality(NonEmpty(tiles_matrix))
          = Cardinality(NonEmpty(pre.tiles_matrix)) - 2
    /\ score = pre.score + 12
    /\ tiles_matrix # pre.tiles_matrix

====
